---- MODULE Spec2Model ----
(***************************************************************************)
(* Model of the translation-center pull scripts (script/pull_common.py,    *)
(* script/pull.py, script/pull_sources.py, script/pull_translations.py).   *)
(*                                                                         *)
(* YAML values are tagged records of one shape:                            *)
(*   t  : "str" | "num" | "bool" | "None" | "list" | "map"                 *)
(*   s  : the characters of a str (a sequence of one-character strings)    *)
(*   st : the scalar-string class of a str ("plain" = str,                 *)
(*        "dq" = DoubleQuotedScalarString, "lit" = LiteralScalarString)    *)
(*   ks : the keys of a map, in insertion order                            *)
(*   xs : the values of a map (aligned with ks) or the items of a list     *)
(* Python's None is both the YAML null scalar and the "absent" result.     *)
(***************************************************************************)
EXTENDS Integers, Sequences, FiniteSets, TLC

VARIABLES
  data, phase, fused, reduced, collapsed,   \* one parsed tree and its transforms
  content, cphase, cout,                    \* one text through process_yaml_content
  mode,                 \* "sources" (pull_sources) or "translations" (pull_translations)
  fs,                   \* the translations directory: target path -> file
  pc,                   \* where the run is
  ri, fi,               \* the repository and the file configuration being processed
  pending,              \* pull_translations.pull_repo: language files not yet imported
  updated_files,        \* pull_repo's updated_files / imported_files
  all_updated_files,    \* all_updated_files / all_imported_files
  attempted,            \* the pull_file calls made so far
  log,                  \* what was printed, per pull_file call
  commits,              \* the git_commit_changes calls made
  last                  \* the latest pull_file call: its inputs and what it did

dataVars == <<data, phase, fused, reduced, collapsed>>
contentVars == <<content, cphase, cout>>
runVars == <<mode, fs, pc, ri, fi, pending, updated_files, all_updated_files,
             attempted, log, commits, last>>
vars == <<data, phase, fused, reduced, collapsed, content, cphase, cout,
          mode, fs, pc, ri, fi, pending, updated_files, all_updated_files,
          attempted, log, commits, last>>

(* ------------------------------ values ------------------------------- *)

Str(s, st) == [t |-> "str", s |-> s, st |-> st, ks |-> <<>>, xs |-> <<>>]
Scalar(kind) == [t |-> kind, s |-> <<>>, st |-> "", ks |-> <<>>, xs |-> <<>>]
None == Scalar("None")
List(xs) == [t |-> "list", s |-> <<>>, st |-> "", ks |-> <<>>, xs |-> xs]
Map(ks, xs) == [t |-> "map", s |-> <<>>, st |-> "", ks |-> ks, xs |-> xs]

isStr(v) == v.t = "str"
isDict(v) == v.t = "map"
isList(v) == v.t = "list"

(* all(isinstance(item, str) for item in xs) *)
AllStr(xs) == \A i \in 1..Len(xs) : isStr(xs[i])

(* ---------------------------- bounds --------------------------------- *)

\* Largest number of nodes of a generated input tree.
MaxNodes == 4

Keys == {"a", "b"}
LeafStrings == {<<>>, <<"x">>, <<"y", "z">>}
Leaves == {Str(s, "plain") : s \in LeafStrings} \cup {Scalar("num"), Scalar("bool"), None}

\* Sequences of j distinct keys.
KeySeqs(j) == {ks \in [1..j -> Keys] : \A p, q \in 1..j : p # q => ks[p] # ks[q]}
AllKeySeqs == UNION {KeySeqs(j) : j \in 0..Cardinality(Keys)}

RECURSIVE TreesOfSize(_), ForestsOfSize(_), ForestsHeadUpTo(_, _)
\* Sequences of trees whose node counts add up to n, the first of at most k nodes.
ForestsHeadUpTo(n, k) ==
  IF k = 0 THEN {}
  ELSE {<<t>> \o rest : t \in TreesOfSize(k), rest \in ForestsOfSize(n - k)}
       \cup ForestsHeadUpTo(n, k - 1)

\* Sequences of trees whose node counts add up to n.
ForestsOfSize(n) == IF n = 0 THEN {<<>>} ELSE ForestsHeadUpTo(n, n)

\* Trees of exactly n nodes.
TreesOfSize(n) ==
  LET children == ForestsOfSize(n - 1)
  IN (IF n = 1 THEN Leaves ELSE {})
     \cup {List(xs) : xs \in children}
     \cup {Map(p[1], p[2]) : p \in {q \in AllKeySeqs \X children : Len(q[1]) = Len(q[2])}}

RECURSIVE TreesUpTo(_)
TreesUpTo(n) == IF n = 0 THEN {} ELSE TreesOfSize(n) \cup TreesUpTo(n - 1)

Trees == TreesUpTo(MaxNodes)

(* ------------------------ pull_common.py ----------------------------- *)

\* Python truthiness ("if not data"): None, "" and empty containers are falsy.
Falsy(v) ==
  \/ v = None
  \/ isStr(v) /\ Len(v.s) = 0
  \/ (isDict(v) \/ isList(v)) /\ Len(v.xs) = 0

RECURSIVE JoinNL_trailing(_)
\* Mutant of JoinNL: a separator after every item, the last included.
JoinNL_trailing(xs) ==
  IF Len(xs) = 0 THEN <<>>
  ELSE xs[1].s \o <<"\n">> \o JoinNL_trailing(Tail(xs))

RECURSIVE JoinNL(_)
\* "\n".join(items) on the characters of the items
JoinNL(xs) ==
  IF Len(xs) = 0 THEN <<>>
  ELSE IF Len(xs) = 1 THEN xs[1].s
  ELSE xs[1].s \o <<"\n">> \o JoinNL(Tail(xs))

LiteralScalarString(s) == Str(s, "lit")

\* Mutant of KeepFrom: the "is not None" test is missing.
KeepFrom_all(pv, from) == [i \in 1..(Len(pv) - from + 1) |-> from + i - 1]

RECURSIVE KeepFrom_desc(_, _)
\* Mutant of KeepFrom: the kept entries come out in reverse order.
KeepFrom_desc(pv, from) ==
  IF from > Len(pv) THEN <<>>
  ELSE IF pv[from] # None THEN KeepFrom_desc(pv, from + 1) \o <<from>>
  ELSE KeepFrom_desc(pv, from + 1)

RECURSIVE KeepFrom_truthy(_, _)
\* Mutant of KeepFrom: "if processed_value:" in place of "is not None".
KeepFrom_truthy(pv, from) ==
  IF from > Len(pv) THEN <<>>
  ELSE IF ~Falsy(pv[from]) THEN <<from>> \o KeepFrom_truthy(pv, from + 1)
  ELSE KeepFrom_truthy(pv, from + 1)

RECURSIVE KeepFrom(_, _)
\* The indices i >= from, ascending, with pv[i] not None.
KeepFrom(pv, from) ==
  IF from > Len(pv) THEN <<>>
  ELSE IF pv[from] # None THEN <<from>> \o KeepFrom(pv, from + 1)
  ELSE KeepFrom(pv, from + 1)

RECURSIVE process_yaml_data(_)
process_yaml_data(d) ==
  IF isDict(d) THEN
    LET pv == [i \in 1..Len(d.xs) |-> process_yaml_data(d.xs[i])]
        keep == KeepFrom(pv, 1)
    IN IF Len(keep) > 0
       THEN Map([j \in 1..Len(keep) |-> d.ks[keep[j]]], [j \in 1..Len(keep) |-> pv[keep[j]]])
       ELSE None
  ELSE IF isList(d) THEN
    IF Len(d.xs) = 0 THEN None
    ELSE IF AllStr(d.xs) THEN LiteralScalarString(JoinNL(d.xs))
    ELSE
      LET pv == [i \in 1..Len(d.xs) |->
                   IF isStr(d.xs[i]) THEN d.xs[i]
                   ELSE IF isDict(d.xs[i]) \/ isList(d.xs[i]) THEN process_yaml_data(d.xs[i])
                   ELSE None]
          keep == KeepFrom(pv, 1)
          processed_items == [j \in 1..Len(keep) |-> pv[keep[j]]]
      IN IF Len(processed_items) > 0 /\ AllStr(processed_items)
         THEN LiteralScalarString(JoinNL(processed_items))
         ELSE IF Len(processed_items) > 0 THEN List(processed_items) ELSE None
  ELSE IF isStr(d) THEN d
  ELSE None


(* ------------------------------ YAML text ---------------------------- *)
(* A text is a sequence of lines, a line                                   *)
(*   [ind, key, val, cmt]: ind spaces' worth of indentation, "key:" unless *)
(*   key = "", a flow or scalar value unless val = NoVal, and " # cmt"     *)
(*   unless cmt = <<>>.  The characters of a line, as the regular          *)
(*   expressions of should_skip_line see them, are LineText(line): one     *)
(*   element per letter group, a marker phrase being one element.          *)

NoVal == Scalar("novalue")
Line(ind, key, val, cmt) == [ind |-> ind, key |-> key, val |-> val, cmt |-> cmt]

RECURSIVE ValueText(_), ItemsText(_, _, _)
ItemsText(ks, xs, i) ==
  IF i > Len(xs) THEN <<>>
  ELSE (IF i > 1 THEN <<",">> ELSE <<>>)
       \o (IF Len(ks) > 0 THEN <<ks[i], ":">> ELSE <<>>)
       \o ValueText(xs[i]) \o ItemsText(ks, xs, i + 1)
ValueText(v) ==
  IF isStr(v) THEN (IF v.st = "dq" THEN <<"\"">> \o v.s \o <<"\"">> ELSE v.s)
  ELSE IF isList(v) THEN <<"[">> \o ItemsText(<<>>, v.xs, 1) \o <<"]">>
  ELSE IF isDict(v) THEN <<"{">> \o ItemsText(v.ks, v.xs, 1) \o <<"}">>
  ELSE IF v.t = "num" THEN <<"5">>
  ELSE IF v.t = "bool" THEN <<"true">>
  ELSE IF v.t = "None" THEN <<"null">>
  ELSE <<>>

\* Mutant of LineText: only the comment of the line is searched.
LineText_comment(l) == IF Len(l.cmt) > 0 THEN <<"#">> \o l.cmt ELSE <<>>

LineText(l) ==
  [i \in 1..l.ind |-> " "]
  \o (IF l.key # "" THEN <<l.key, ":">> ELSE <<>>)
  \o ValueText(l.val)
  \o (IF Len(l.cmt) > 0 THEN <<"#">> \o l.cmt ELSE <<>>)

\* Case folding, as re.IGNORECASE compares.
Lower(c) ==
  CASE c \in {"DO NOT TRANSLATE", "DO NOT translate", "Do Not Translate"} -> "do not translate"
    [] c \in {"DON'T TRANSLATE", "Don't translate"} -> "don't translate"
    [] c \in {"NO TRANSLATE", "No Translate"} -> "no translate"
    [] c \in {"SKIP", "Skip"} -> "skip"
    [] OTHER -> c

\* Mutant of RegexSearch: re.search without re.IGNORECASE.
RegexSearch_cased(phrase, txt) ==
  \E i, j \in 1..Len(txt) : i < j /\ txt[i] = "#" /\ txt[j] = phrase

\* re.search("#.*" + phrase, line, re.IGNORECASE)
RegexSearch(phrase, txt) ==
  \E i, j \in 1..Len(txt) : i < j /\ txt[i] = "#" /\ Lower(txt[j]) = Lower(phrase)

\* pull_common.should_skip_line
skip_patterns == <<"DO NOT translate", "do not translate", "Don't translate", "don't translate">>
should_skip_line(l) ==
  \E p \in 1..Len(skip_patterns) : RegexSearch(skip_patterns[p], LineText(l))

\* pull.should_skip_line
comment_patterns ==
  <<"DO NOT translate", "do not translate", "Don't translate", "don't translate",
    "NO TRANSLATE", "no translate", "SKIP", "skip">>
pull_should_skip_line(l) ==
  \E p \in 1..Len(comment_patterns) : RegexSearch(comment_patterns[p], LineText(l))

\* Mutant of FilterLines: the marked line loses its comment and stays.
FilterLines_strip(lines) ==
  [i \in 1..Len(lines) |->
     IF should_skip_line(lines[i]) THEN [lines[i] EXCEPT !.cmt = <<>>] ELSE lines[i]]

\* pull_common.process_yaml_content: the lines kept for parsing
FilterLines(lines) == SelectSeq(lines, LAMBDA l : ~should_skip_line(l))

(* The loader (ruamel YAML().load) on block mappings of at most two levels  *)
(* whose values are flow or quoted scalars, and on one-line documents.      *)

Loaded(v) == [ok |-> TRUE, v |-> v]
ParseError == [ok |-> FALSE, v |-> None]

IsBlank(l) == l.key = "" /\ l.val = NoVal
Distinct(seq) == \A p, q \in 1..Len(seq) : p # q => seq[p] # seq[q]

\* Mutant of ValueOf: a loader that makes every scalar string a plain str.
ValueOf_plain(l) ==
  IF l.val = NoVal THEN None
  ELSE IF isStr(l.val) THEN Str(l.val.s, "plain")
  ELSE l.val

\* The value of a line: with preserve_quotes a quoted scalar keeps its class.
ValueOf(l) == IF l.val = NoVal THEN None ELSE l.val

\* A block mapping of the lines cl, all of one indentation.
FlatMapping(cl) ==
  IF Distinct([i \in 1..Len(cl) |-> cl[i].key])
  THEN Loaded(Map([i \in 1..Len(cl) |-> cl[i].key], [i \in 1..Len(cl) |-> ValueOf(cl[i])]))
  ELSE ParseError

RECURSIVE ChildrenOf(_, _)
\* The lines of deeper indentation that follow line i.
ChildrenOf(cl, i) ==
  IF i + 1 > Len(cl) \/ cl[i + 1].ind = 0 THEN <<>>
  ELSE <<cl[i + 1]>> \o ChildrenOf(cl, i + 1)

\* A block mapping whose first key is not indented.
NestedMapping(cl) ==
  LET tops == SelectSeq([i \in 1..Len(cl) |-> i], LAMBDA i : cl[i].ind = 0)
      kids(i) == ChildrenOf(cl, i)
      sub(i) == FlatMapping(kids(i))
  IN IF \/ ~Distinct([j \in 1..Len(tops) |-> cl[tops[j]].key])
        \/ \E j \in 1..Len(tops) :
             Len(kids(tops[j])) > 0 /\ (cl[tops[j]].val # NoVal \/ ~sub(tops[j]).ok)
     THEN ParseError
     ELSE Loaded(Map([j \in 1..Len(tops) |-> cl[tops[j]].key],
                     [j \in 1..Len(tops) |->
                        IF Len(kids(tops[j])) > 0 THEN sub(tops[j]).v
                        ELSE ValueOf(cl[tops[j]])]))

Load(lines) ==
  LET cl == SelectSeq(lines, LAMBDA l : ~IsBlank(l))
  IN IF Len(cl) = 0 THEN Loaded(None)
     ELSE IF \E i \in 1..Len(cl) : cl[i].key = ""
     THEN (IF Len(cl) = 1 THEN Loaded(cl[1].val) ELSE ParseError)
     ELSE IF cl[1].ind = 0 THEN NestedMapping(cl)
     ELSE IF \A i \in 1..Len(cl) : cl[i].ind = cl[1].ind THEN FlatMapping(cl)
     ELSE ParseError

EmptyDict == Map(<<>>, <<>>)

\* pull_common.process_yaml_content
process_yaml_content(lines) ==
  LET filtered_lines == FilterLines(lines)
      loaded == Load(filtered_lines)
      processed_data == process_yaml_data(loaded.v)
  IN IF ~loaded.ok THEN EmptyDict
     ELSE IF Falsy(processed_data) THEN EmptyDict ELSE processed_data


(* --------------------------- files on disk --------------------------- *)
(* k = "absent": no file; "corrupt": a file the loader cannot read or     *)
(* parse; "yaml": a file holding the YAML document doc.                   *)

Absent == [k |-> "absent", doc |-> None]
Corrupt == [k |-> "corrupt", doc |-> None]
YamlFile(d) == [k |-> "yaml", doc |-> d]
\* open(target_path, "w") has truncated the file and nothing was written.
EmptyFile == YamlFile(None)

RECURSIVE Unquoted(_)
\* YAML().load without preserve_quotes: quoted scalars load as plain str,
\* block scalars as LiteralScalarString.
Unquoted(v) ==
  IF isStr(v) THEN (IF v.st = "dq" THEN Str(v.s, "plain") ELSE v)
  ELSE IF isDict(v) THEN Map(v.ks, [i \in 1..Len(v.xs) |-> Unquoted(v.xs[i])])
  ELSE IF isList(v) THEN List([i \in 1..Len(v.xs) |-> Unquoted(v.xs[i])])
  ELSE v

\* save_yaml_file: existing_data = yaml_loader.load(f)
LoadFile(f) == Unquoted(f.doc)

\* yaml_dumper.dump(data, f): every string is written in the style of its
\* class (the representer does not read preserve_quotes), keys in dict order.
Dump(d, preserve_quotes) == YamlFile(d)

RECURSIVE SerializeMapping(_, _, _)
\* The lines of the block mapping d from its i-th key on, ind levels deep: a
\* nested mapping goes on the lines below its key, one level deeper, any
\* other value on the line of its key (a block scalar with it).
SerializeMapping(d, i, ind) ==
  IF i > Len(d.ks) THEN <<>>
  ELSE (IF isDict(d.xs[i]) /\ Len(d.xs[i].ks) > 0
        THEN <<Line(ind, d.ks[i], NoVal, <<>>)>> \o SerializeMapping(d.xs[i], 1, ind + 1)
        ELSE <<Line(ind, d.ks[i], d.xs[i], <<>>)>>)
       \o SerializeMapping(d, i + 1, ind)

\* The text yaml_dumper.dump(data, f) writes, for either value of
\* preserve_quotes: block style (default_flow_style = False), no comments.
Serialize(d, preserve_quotes) ==
  IF isDict(d) /\ Len(d.ks) > 0 THEN SerializeMapping(d, 1, 0)
  ELSE <<Line(0, "", d, <<>>)>>

\* Mutant of PyEq: mappings compared as ordered (OrderedDict == OrderedDict).
PyEq_ordered(a, b) == Unquoted(a) = Unquoted(b)

RECURSIVE PyEq(_, _)
\* existing_data == data: str by characters whatever the class, dict by
\* key set and values whatever the order, list by position.
PyEq(a, b) ==
  IF isStr(a) /\ isStr(b) THEN a.s = b.s
  ELSE IF isDict(a) /\ isDict(b) THEN
    /\ Len(a.ks) = Len(b.ks)
    /\ \A i \in 1..Len(a.ks) :
         \E j \in 1..Len(b.ks) : a.ks[i] = b.ks[j] /\ PyEq(a.xs[i], b.xs[j])
  ELSE IF isList(a) /\ isList(b) THEN
    /\ Len(a.xs) = Len(b.xs)
    /\ \A i \in 1..Len(a.xs) : PyEq(a.xs[i], b.xs[i])
  ELSE a.t = b.t /\ ~isStr(a) /\ ~isDict(a) /\ ~isList(a)

Faults == {"none", "mkdir", "open", "dump"}

\* pull_common.save_yaml_file(data, target_path, preserve_quotes), the file at
\* target_path being pre; fault is the filesystem call that fails, if it is
\* made (mkdir with exist_ok cannot fail on the directory of an existing file).
save_yaml_file(d, pre, preserve_quotes, fault) ==
  IF fault = "mkdir" /\ pre.k = "absent" THEN
    [ret |-> "raise", post |-> pre, fault |-> fault, written |-> <<>>]
  ELSE
    LET file_changed ==
          IF pre.k = "absent" THEN TRUE
          ELSE IF pre.k = "corrupt" THEN TRUE
          ELSE ~PyEq(LoadFile(pre), d)
    IN IF file_changed THEN
         IF fault = "open" THEN
           [ret |-> "raise", post |-> pre, fault |-> fault, written |-> <<>>]
         ELSE IF fault = "dump" THEN
           [ret |-> "raise", post |-> EmptyFile, fault |-> fault, written |-> <<>>]
         ELSE [ret |-> "True", post |-> Dump(d, preserve_quotes), fault |-> "none",
               written |-> Serialize(d, preserve_quotes)]
       ELSE [ret |-> "False", post |-> pre, fault |-> "none", written |-> <<>>]

DownloadError == [ok |-> FALSE, text |-> <<>>]
Downloaded(txt) == [ok |-> TRUE, text |-> txt]

\* Mutant of PreserveQuotes: the flags of the two modules exchanged.
PreserveQuotes_swapped(m) == m = "sources"

\* pull_sources.pull_file passes preserve_quotes=False, pull_translations.pull_file True.
PreserveQuotes(m) == m = "translations"

\* Mutant of PullFileBody: the "if not data" test is missing.
PullFileBody_unguarded(m, dl, pre, fault) ==
  IF ~dl.ok THEN
    [mode |-> m, dl |-> dl, pre |-> pre, fault |-> "none", doc |-> EmptyDict,
     outcome |-> "download_error", ret |-> FALSE, post |-> pre, raised |-> TRUE,
     preserve_quotes |-> PreserveQuotes(m), written |-> <<>>]
  ELSE
    LET d == process_yaml_content(dl.text)
        saved == save_yaml_file(d, pre, PreserveQuotes(m), fault)
    IN [mode |-> m, dl |-> dl, pre |-> pre, fault |-> saved.fault, doc |-> d,
        outcome |-> IF saved.ret = "raise" THEN "save_error"
                    ELSE IF saved.ret = "True" THEN "saved"
                    ELSE IF Falsy(d) THEN "no_strings" ELSE "unchanged",
        ret |-> saved.ret = "True", post |-> saved.post, raised |-> saved.ret = "raise",
        preserve_quotes |-> PreserveQuotes(m), written |-> saved.written]

\* The try block of pull_file: download, process, save. raised tells whether
\* an exception left the block.
PullFileBody(m, dl, pre, fault) ==
  IF ~dl.ok THEN
    [mode |-> m, dl |-> dl, pre |-> pre, fault |-> "none", doc |-> EmptyDict,
     outcome |-> "download_error", ret |-> FALSE, post |-> pre, raised |-> TRUE,
     preserve_quotes |-> PreserveQuotes(m), written |-> <<>>]
  ELSE
    LET d == process_yaml_content(dl.text)
        saved == save_yaml_file(d, pre, PreserveQuotes(m), fault)
    IN IF Falsy(d) THEN
         [mode |-> m, dl |-> dl, pre |-> pre, fault |-> "none", doc |-> d,
          outcome |-> "no_strings", ret |-> FALSE, post |-> pre, raised |-> FALSE,
          preserve_quotes |-> PreserveQuotes(m), written |-> <<>>]
       ELSE
         [mode |-> m, dl |-> dl, pre |-> pre, fault |-> saved.fault, doc |-> d,
          outcome |-> IF saved.ret = "raise" THEN "save_error"
                      ELSE IF saved.ret = "True" THEN "saved" ELSE "unchanged",
          ret |-> saved.ret = "True", post |-> saved.post, raised |-> saved.ret = "raise",
          preserve_quotes |-> PreserveQuotes(m), written |-> saved.written]

\* Mutant of pull_file: no except clause, the exception leaves pull_file.
pull_file_uncaught(m, dl, pre, fault) == PullFileBody(m, dl, pre, fault)

\* pull_sources.pull_file / pull_translations.pull_file: dl is what
\* download_file_content gives, pre the file at the target path. "except
\* Exception" prints the error and returns False.
pull_file(m, dl, pre, fault) ==
  [PullFileBody(m, dl, pre, fault) EXCEPT !.raised = FALSE]

NoCall ==
  [mode |-> "", dl |-> DownloadError, pre |-> Absent, fault |-> "none", doc |-> EmptyDict,
   outcome |-> "", ret |-> FALSE, post |-> Absent, raised |-> FALSE,
   preserve_quotes |-> FALSE, written |-> <<>>]

(* ----------------------- bounded input texts ------------------------- *)

\* Longest generated text, in lines.
MaxLines == 2

LineVals ==
  { NoVal, Str(<<"x">>, "dq"), Str(<<>>, "dq"), Scalar("num"),
    List(<<Str(<<"x">>, "plain"), Str(<<"y", "z">>, "plain")>>), List(<<>>) }
RootVals ==
  { Str(<<"x">>, "dq"), Scalar("num"),
    List(<<Str(<<"x">>, "plain"), Str(<<"y", "z">>, "plain")>>),
    List(<<Map(<<"a">>, <<Str(<<"x">>, "plain")>>)>>) }
CommentWords ==
  { "note", "do not translate", "DO NOT TRANSLATE", "don't translate", "DON'T TRANSLATE",
    "no translate", "NO TRANSLATE", "skip", "SKIP" }

PlainLines ==
  {Line(i, k, v, <<>>) : i \in {0, 1}, k \in Keys, v \in LineVals}
  \cup {Line(0, "", v, <<>>) : v \in RootVals \cup {NoVal}}
CommentedLines ==
  {Line(i, k, v, <<c>>) : i \in {0, 1}, k \in {"a"}, v \in {NoVal, Str(<<"x">>, "dq")},
                          c \in CommentWords}
\* Lines without a comment whose quoted value holds a '#', a marker phrase, or both.
QuotedLines ==
  {Line(0, "b", Str(s, "dq"), <<>>) :
     s \in {<<"#", "do not translate">>, <<"do not translate">>, <<"#", "x">>}}
Lines == PlainLines \cup CommentedLines \cup QuotedLines

RECURSIVE TextsUpTo(_)
TextsUpTo(n) ==
  IF n = 0 THEN {<<>>}
  ELSE LET shorter == TextsUpTo(n - 1)
       IN shorter \cup {Append(txt, l) : txt \in {u \in shorter : Len(u) = n - 1}, l \in Lines}
Texts == TextsUpTo(MaxLines)

(* ----------------------------- pull.py ------------------------------- *)

RECURSIVE extract_strings_only(_)
extract_strings_only(d) ==
  IF isDict(d) THEN
    LET pv == [i \in 1..Len(d.xs) |-> extract_strings_only(d.xs[i])]
        keep == KeepFrom(pv, 1)
    IN IF Len(keep) > 0
       THEN Map([j \in 1..Len(keep) |-> d.ks[keep[j]]], [j \in 1..Len(keep) |-> pv[keep[j]]])
       ELSE None
  ELSE IF isList(d) THEN
    LET pv == [i \in 1..Len(d.xs) |-> extract_strings_only(d.xs[i])]
        keep == KeepFrom(pv, 1)
    IN IF Len(keep) > 0 THEN List([j \in 1..Len(keep) |-> pv[keep[j]]]) ELSE None
  ELSE IF isStr(d) THEN d
  ELSE None

RECURSIVE convert_arrays_to_multiline(_)
convert_arrays_to_multiline(d) ==
  IF isDict(d) THEN
    Map(d.ks, [i \in 1..Len(d.xs) |-> convert_arrays_to_multiline(d.xs[i])])
  ELSE IF isList(d) THEN
    IF AllStr(d.xs) THEN LiteralScalarString(JoinNL(d.xs))
    ELSE List([i \in 1..Len(d.xs) |-> convert_arrays_to_multiline(d.xs[i])])
  ELSE d

(* ------------------------- configuration ----------------------------- *)
(* config["repos"]: per repository its folder and its file configurations; *)
(* a path is [dir, stem, ext], a target [folder, stem, ext].               *)

FileName(stem) == [stem |-> stem, ext |-> "yml"]
Path(dir, stem) == [dir |-> dir, stem |-> stem, ext |-> "yml"]
Target(folder, name) == [folder |-> folder, stem |-> name.stem, ext |-> name.ext]

Repos ==
  << [folder |-> "r1",
      files |-> << [source |-> Path("lang", "en-US"), name |-> FileName("messages")],
                   [source |-> Path("gui", "en-US"), name |-> FileName("gui")] >>],
     [folder |-> "r2",
      files |-> << [source |-> Path("lang", "en-US"), name |-> FileName("messages")] >>] >>

Modes == {"sources", "translations"}

\* common.LANGUAGE_CODE_MAPPING and get_mapped_language_code
get_mapped_language_code(code) ==
  CASE code = "zh-Hans" -> "zh-CN"
    [] code = "zh-Hant" -> "zh-TW"
    [] OTHER -> code

\* What the GitHub contents API may list for a language directory.
Item(stem, ext, type) == [stem |-> stem, ext |-> ext, type |-> type]
Listings ==
  { {Item("en-US", "yml", "file"), Item("README", "md", "file"), Item("old", "yml", "dir")},
    {Item("en-US", "yml", "file"), Item("zh-Hans", "yml", "file")},
    {Item("en-US", "yml", "file"), Item("zh-Hans", "yml", "file"), Item("zh-CN", "yml", "file")} }
ListingError == {Item("", "", "error")}

\* pull_translations.scan_language_files
scan_language_files(listing) ==
  IF listing = ListingError THEN {}
  ELSE {FileName(it.stem) : it \in {x \in listing : x.type = "file" /\ x.ext = "yml"}}

LangStems == {"en-US", "zh-Hans", "zh-CN"}
SourceTargets ==
  UNION {{Target(Repos[r].folder, Repos[r].files[f].name) : f \in 1..Len(Repos[r].files)} :
           r \in 1..Len(Repos)}
TranslationTargets ==
  {Target(Repos[r].folder, FileName(get_mapped_language_code(st))) :
     r \in 1..Len(Repos), st \in LangStems}
AllTargets == SourceTargets \cup TranslationTargets

(* ------------------------ inputs of a run --------------------------- *)

\* The texts a download may give during a run.
RunTexts ==
  { <<Line(0, "a", Str(<<"x">>, "dq"), <<>>)>>,
    <<Line(0, "a", Str(<<"x">>, "dq"), <<>>),
      Line(0, "b", List(<<Str(<<"x">>, "plain"), Str(<<"y", "z">>, "plain")>>), <<>>)>>,
    <<Line(0, "a", Scalar("num"), <<>>), Line(0, "b", Str(<<"x">>, "dq"), <<"do not translate">>)>>,
    <<Line(0, "a", Str(<<"x">>, "dq"), <<>>), Line(0, "a", Str(<<"x">>, "dq"), <<>>)>> }
RunDownloads == {DownloadError} \cup {Downloaded(txt) : txt \in RunTexts}
RunFaults == {"none", "open"}

\* What the targets hold before a run: nothing, or the document of an earlier run.
InitialFiles ==
  {Absent, YamlFile(process_yaml_content(CHOOSE txt \in RunTexts : Len(txt) = 1))}

NotScanned == [scanned |-> FALSE, files |-> {}]

RunIdle ==
  /\ mode = "" /\ fs = [t \in AllTargets |-> Absent] /\ pc = "idle"
  /\ ri = 1 /\ fi = 1 /\ pending = NotScanned
  /\ updated_files = <<>> /\ all_updated_files = <<>>
  /\ attempted = <<>> /\ log = <<>> /\ commits = <<>> /\ last = NoCall

(* --------------- the transforms applied to one parsed tree ----------- *)

NoText == <<>>
NoOutput == [filtered |-> <<>>, ok |-> TRUE, loaded |-> None, result |-> None]
ContentIdle == content = NoText /\ cphase = "idle" /\ cout = NoOutput
DataIdle == data = None /\ phase = "idle" /\ fused = None /\ reduced = None /\ collapsed = None

InitData ==
  /\ ContentIdle /\ RunIdle
  /\ data \in Trees
  /\ phase = "parsed"
  /\ fused = None
  /\ reduced = None
  /\ collapsed = None

\* pull_common.process_yaml_content: processed_data = process_yaml_data(data)
ProcessYamlData ==
  /\ phase = "parsed"
  /\ fused' = process_yaml_data(data)
  /\ phase' = "fused"
  /\ UNCHANGED <<data, reduced, collapsed, contentVars, runVars>>

\* pull.pull_file: strings_only = extract_strings_only(data)
ExtractStringsOnly ==
  /\ phase = "parsed"
  /\ reduced' = extract_strings_only(data)
  /\ phase' = "reduced"
  /\ UNCHANGED <<data, fused, collapsed, contentVars, runVars>>

\* pull.pull_file: processed_data = convert_arrays_to_multiline(strings_only),
\* reached only when strings_only is truthy
ConvertArraysToMultiline ==
  /\ phase = "reduced"
  /\ ~Falsy(reduced)
  /\ collapsed' = convert_arrays_to_multiline(reduced)
  /\ phase' = "collapsed"
  /\ UNCHANGED <<data, fused, reduced, contentVars, runVars>>

NextData == ProcessYamlData \/ ExtractStringsOnly \/ ConvertArraysToMultiline

SpecData == InitData /\ [][NextData]_vars

(* ------------- one downloaded text through process_yaml_content ------ *)

InitContent ==
  /\ DataIdle /\ RunIdle
  /\ content \in Texts
  /\ cphase = "downloaded"
  /\ cout = NoOutput

\* data = process_yaml_content(content), with the values it passes through
ProcessYamlContent ==
  /\ cphase = "downloaded"
  /\ cout' = [filtered |-> FilterLines(content),
              ok |-> Load(FilterLines(content)).ok,
              loaded |-> Load(FilterLines(content)).v,
              result |-> process_yaml_content(content)]
  /\ cphase' = "processed"
  /\ UNCHANGED <<content, dataVars, runVars>>

NextContent == ProcessYamlContent

SpecContent == InitContent /\ [][NextContent]_vars

(* ------------------------------ the run ------------------------------ *)

Init ==
  /\ DataIdle /\ ContentIdle
  /\ mode \in Modes
  /\ \E f \in InitialFiles :
       fs = [t \in AllTargets |-> f]
  /\ pc = "repos"
  /\ ri = 1 /\ fi = 1 /\ pending = NotScanned
  /\ updated_files = <<>> /\ all_updated_files = <<>>
  /\ attempted = <<>> /\ log = <<>> /\ commits = <<>> /\ last = NoCall

\* Mutant of Printed: the except clause returns False without printing.
Printed_quiet(call) ==
  CASE call.outcome = "no_strings" -> "warning"
    [] call.outcome = "saved" -> "saved"
    [] OTHER -> "no_changes"

\* What pull_file prints for the call.
Printed(call) ==
  CASE call.outcome = "download_error" -> "error"
    [] call.outcome = "save_error" -> "error"
    [] call.outcome = "no_strings" -> "warning"
    [] call.outcome = "saved" -> "saved"
    [] OTHER -> "no_changes"

\* Mutant of NextFileConfig: the list pull_repo returns replaces the run's list
\* (assignment in place of extend).
NextFileConfig_assign(upd) ==
  /\ pending' = NotScanned
  /\ IF fi < Len(Repos[ri].files)
     THEN /\ fi' = fi + 1
          /\ updated_files' = upd
          /\ UNCHANGED <<ri, all_updated_files, pc>>
     ELSE /\ fi' = 1
          /\ ri' = ri + 1
          /\ updated_files' = <<>>
          /\ all_updated_files' = upd
          /\ pc' = IF ri < Len(Repos) THEN "repos" ELSE "report"

\* The end of one iteration of pull_repo's loop over repo_config["files"], upd
\* being updated_files after it: the next file configuration, or pull_repo
\* returns and pull_sources / pull_translations extends its list and goes on to
\* the next repository, or leaves its loop.
NextFileConfig(upd) ==
  /\ pending' = NotScanned
  /\ IF fi < Len(Repos[ri].files)
     THEN /\ fi' = fi + 1
          /\ updated_files' = upd
          /\ UNCHANGED <<ri, all_updated_files, pc>>
     ELSE /\ fi' = 1
          /\ ri' = ri + 1
          /\ updated_files' = <<>>
          /\ all_updated_files' = all_updated_files \o upd
          /\ pc' = IF ri < Len(Repos) THEN "repos" ELSE "report"

\* pull_sources / pull_translations: "except Exception" around pull_repo prints
\* the error and continues with the next repository; what pull_repo had
\* collected is lost with it.
RepoFailed ==
  /\ pending' = NotScanned
  /\ fi' = 1
  /\ ri' = ri + 1
  /\ updated_files' = <<>>
  /\ pc' = IF ri < Len(Repos) THEN "repos" ELSE "report"
  /\ UNCHANGED all_updated_files

\* The call pull_file makes and what the caller's loop does with its result.
CallPullFile(target, dl, fault) ==
  LET call == pull_file(mode, dl, fs[target], fault)
  IN /\ fs' = [fs EXCEPT ![target] = call.post]
     /\ last' = call
     /\ attempted' = Append(attempted, target)
     /\ log' = Append(log, [target |-> target, msg |-> Printed(call)])

\* pull_sources.pull_repo: one iteration of "for file_config in repo_config['files']"
PullSourceFile ==
  /\ pc = "repos" /\ mode = "sources"
  /\ \E dl \in RunDownloads, fault \in RunFaults :
       LET target == Target(Repos[ri].folder, Repos[ri].files[fi].name)
           call == pull_file(mode, dl, fs[target], fault)
       IN /\ CallPullFile(target, dl, fault)
          /\ IF call.raised THEN RepoFailed
             ELSE NextFileConfig(IF call.ret THEN Append(updated_files, target)
                                 ELSE updated_files)
  /\ UNCHANGED <<mode, commits, dataVars, contentVars>>

\* pull_translations.pull_repo: scan the directory of the file configuration
\* and drop the source file from what was found
ScanLanguageFiles ==
  /\ pc = "repos" /\ mode = "translations" /\ ~pending.scanned
  /\ \E listing \in Listings \cup {ListingError} :
       LET language_files == scan_language_files(listing)
           remaining == language_files \ {FileName(Repos[ri].files[fi].source.stem)}
       IN IF language_files = {} \/ remaining = {}
          THEN NextFileConfig(updated_files)
          ELSE /\ pending' = [scanned |-> TRUE, files |-> remaining]
               /\ UNCHANGED <<ri, fi, updated_files, all_updated_files, pc>>
  /\ UNCHANGED <<mode, fs, attempted, log, commits, last, dataVars, contentVars>>

\* pull_translations.pull_repo: one iteration of "for lang_file in language_files"
ImportLanguageFile ==
  /\ pc = "repos" /\ mode = "translations" /\ pending.scanned
  /\ \E lang_file \in pending.files, dl \in RunDownloads, fault \in RunFaults :
       LET mapped_file_name == FileName(get_mapped_language_code(lang_file.stem))
           target == Target(Repos[ri].folder, mapped_file_name)
           call == pull_file(mode, dl, fs[target], fault)
           upd == IF call.ret THEN Append(updated_files, target) ELSE updated_files
       IN /\ CallPullFile(target, dl, fault)
          /\ IF call.raised THEN RepoFailed
             ELSE IF pending.files = {lang_file}
             THEN NextFileConfig(upd)
             ELSE /\ pending' = [pending EXCEPT !.files = @ \ {lang_file}]
                  /\ updated_files' = upd
                  /\ UNCHANGED <<ri, fi, all_updated_files, pc>>
  /\ UNCHANGED <<mode, commits, dataVars, contentVars>>

\* Mutant of CommitChanges: git_commit_changes is called whatever the list.
CommitChanges_always ==
  /\ pc = "report" /\ mode = "sources"
  /\ \E git_ok \in BOOLEAN :
       /\ commits' = Append(commits, git_ok)
       /\ pc' = IF git_ok THEN "done" ELSE "raised"
  /\ UNCHANGED <<mode, fs, ri, fi, pending, updated_files, all_updated_files,
                 attempted, log, last, dataVars, contentVars>>

\* pull_sources: "if all_updated_files: git_commit_changes(...)", which raises
\* when a git command fails
CommitChanges ==
  /\ pc = "report" /\ mode = "sources"
  /\ IF all_updated_files # <<>>
     THEN \E git_ok \in BOOLEAN :
            /\ commits' = Append(commits, git_ok)
            /\ pc' = IF git_ok THEN "done" ELSE "raised"
     ELSE /\ pc' = "done"
          /\ UNCHANGED commits
  /\ UNCHANGED <<mode, fs, ri, fi, pending, updated_files, all_updated_files,
                 attempted, log, last, dataVars, contentVars>>

\* pull_translations: the summary after the loop
ReportImported ==
  /\ pc = "report" /\ mode = "translations"
  /\ pc' = "done"
  /\ UNCHANGED <<mode, fs, ri, fi, pending, updated_files, all_updated_files,
                 attempted, log, commits, last, dataVars, contentVars>>

\* What pull_sources / pull_translations print after the loop: the number of
\* repositories and of updated (imported) files, and nothing when
\* git_commit_changes raised.
Summary ==
  IF pc = "done"
  THEN {[label |-> "repositories", n |-> Len(Repos)],
        [label |-> "updated", n |-> Len(all_updated_files)]}
  ELSE {}

Next ==
  \/ PullSourceFile
  \/ ScanLanguageFiles
  \/ ImportLanguageFile
  \/ CommitChanges
  \/ ReportImported

Spec == Init /\ [][Next]_vars

(* ------------------------- one pull_file call ------------------------ *)

\* The texts a download may give to the call.
FileLines ==
  {Line(0, k, v, <<>>) : k \in Keys, v \in LineVals}
  \cup {Line(0, "", v, <<>>) : v \in RootVals \cup {NoVal}}
  \cup {Line(0, "a", Str(<<"x">>, "dq"), <<"do not translate">>)}
RECURSIVE FileTextsUpTo(_)
FileTextsUpTo(n) ==
  IF n = 0 THEN {<<>>}
  ELSE LET shorter == FileTextsUpTo(n - 1)
       IN shorter \cup {Append(txt, l) : txt \in {u \in shorter : Len(u) = n - 1}, l \in FileLines}
FileDownloads == {DownloadError} \cup {Downloaded(txt) : txt \in FileTextsUpTo(MaxLines)}

\* The files the call may find at its target: none, an unreadable one, an
\* empty one, or a mapping of strings.
PreFiles ==
  {Absent, Corrupt, EmptyFile}
  \cup {YamlFile(d) : d \in {v \in TreesUpTo(MaxNodes - 1) :
                               isDict(v) /\ \A i \in 1..Len(v.xs) : isStr(v.xs[i])}}

FileTarget == Target(Repos[1].folder, Repos[1].files[1].name)

InitFile ==
  /\ DataIdle /\ ContentIdle
  /\ mode \in Modes
  /\ \E pre \in PreFiles : fs = [t \in AllTargets |-> IF t = FileTarget THEN pre ELSE Absent]
  /\ pc = "call"
  /\ ri = 1 /\ fi = 1 /\ pending = NotScanned
  /\ updated_files = <<>> /\ all_updated_files = <<>>
  /\ attempted = <<>> /\ log = <<>> /\ commits = <<>> /\ last = NoCall

\* pull_file(...) for the first configured file
PullFileCall ==
  /\ pc = "call"
  /\ \E dl \in FileDownloads, fault \in Faults : CallPullFile(FileTarget, dl, fault)
  /\ pc' = "returned"
  /\ UNCHANGED <<mode, ri, fi, pending, updated_files, all_updated_files, commits,
                 dataVars, contentVars>>

NextFile == PullFileCall

SpecFile == InitFile /\ [][NextFile]_vars

(* ===================== properties of the transforms ================== *)

Range(f) == {f[i] : i \in DOMAIN f}

RECURSIVE StringBearing(_)
\* v holds no number, boolean or null and no empty mapping or sequence.
StringBearing(v) ==
  \/ isStr(v)
  \/ /\ isDict(v) \/ isList(v)
     /\ Len(v.xs) > 0
     /\ \A i \in 1..Len(v.xs) : StringBearing(v.xs[i])

\* A value the reducers discard whatever surrounds it.
DroppedValue(v) == v.t \in {"num", "bool", "None"} \/ (isList(v) /\ Len(v.xs) = 0)

\* out is what a mapping src must reduce to as far as its keys go: no key of a
\* discarded value, and absent (None) rather than a mapping without keys.
KeysOmitted(src, out) ==
  /\ out = None \/ (isDict(out) /\ Len(out.ks) > 0)
  /\ \A i \in 1..Len(src.ks) :
       DroppedValue(src.xs[i]) => (out = None \/ src.ks[i] \notin Range(out.ks))
  /\ (\A i \in 1..Len(src.ks) : DroppedValue(src.xs[i])) => out = None

\* C1: after the Content Reducer (process_yaml_data, extract_strings_only) the
\* result is absent or has, at every depth, no number, boolean or null and no
\* empty mapping or sequence; a mapping omits every key whose value is an empty
\* sequence, a number, a boolean or null, and reduces to absent when no key is left.
C1_ReducedHasOnlyStrings ==
  /\ phase = "fused" =>
       /\ fused = None \/ StringBearing(fused)
       /\ isDict(data) => KeysOmitted(data, fused)
  /\ phase \in {"reduced", "collapsed"} =>
       /\ reduced = None \/ StringBearing(reduced)
       /\ isDict(data) => KeysOmitted(data, reduced)

C1_Witness ==
  /\ phase = "fused"
  /\ isDict(data) /\ Len(data.ks) = 2
  /\ DroppedValue(data.xs[2])
  /\ isDict(fused) /\ fused.ks = <<data.ks[1]>>

RECURSIVE Offset(_, _)
\* Where item i starts in the joined text, less one.
Offset(xs, i) == IF i = 1 THEN 0 ELSE Offset(xs, i - 1) + Len(xs[i - 1].s) + 1

\* r is the items of xs in order, one "\n" between consecutive items and
\* nothing after the last.
IsJoin(r, xs) ==
  /\ Len(r) = Offset(xs, Len(xs)) + Len(xs[Len(xs)].s)
  /\ \A i \in 1..Len(xs) :
       /\ \A k \in 1..Len(xs[i].s) : r[Offset(xs, i) + k] = xs[i].s[k]
       /\ i < Len(xs) => r[Offset(xs, i) + Len(xs[i].s) + 1] = "\n"

StringList(v) == isList(v) /\ Len(v.xs) >= 1 /\ AllStr(v.xs)

\* C2: a sequence of N >= 1 strings collapses to one string, its elements in
\* order joined by single newlines with none after the last; N = 1 gives the
\* element itself.
C2_CollapseJoins ==
  /\ (phase = "fused" /\ StringList(data)) =>
       /\ isStr(fused) /\ IsJoin(fused.s, data.xs)
       /\ Len(data.xs) = 1 => fused.s = data.xs[1].s
  /\ (phase = "collapsed" /\ StringList(data)) =>
       /\ isStr(collapsed) /\ IsJoin(collapsed.s, data.xs)
       /\ Len(data.xs) = 1 => collapsed.s = data.xs[1].s

C2_Witness ==
  /\ phase = "collapsed"
  /\ StringList(data) /\ Len(data.xs) >= 2
  /\ Len(collapsed.s) > Len(data.xs)

RECURSIVE NoStringSeq(_)
\* v holds no sequence all of whose elements are strings.
NoStringSeq(v) ==
  /\ isList(v) => ~AllStr(v.xs)
  /\ (isDict(v) \/ isList(v)) => \A i \in 1..Len(v.xs) : NoStringSeq(v.xs[i])

\* C3: the collapsed output holds no sequence consisting solely of strings, at
\* any depth, in the fused transform and in the two-stage pipeline alike.
C3_NoStringSeqLeft ==
  /\ phase = "fused" => NoStringSeq(fused)
  /\ phase = "collapsed" => NoStringSeq(collapsed)

\* C3, for process_yaml_data alone.
C3_FusedNoStringSeqLeft == phase = "fused" => NoStringSeq(fused)

\* The tree {a: [x, y], b: 5, c: {d: "ok", e: []}} and what both pipelines
\* make of it.
ScenarioTree ==
  Map(<<"a", "b", "c">>,
      <<List(<<Str(<<"x">>, "plain"), Str(<<"y">>, "plain")>>),
        Scalar("num"),
        Map(<<"d", "e">>, <<Str(<<"ok">>, "dq"), List(<<>>)>>)>>)
ScenarioResult ==
  Map(<<"a", "c">>,
      <<LiteralScalarString(<<"x", "\n", "y">>), Map(<<"d">>, <<Str(<<"ok">>, "dq")>>)>>)
ScenarioAgrees ==
  /\ process_yaml_data(ScenarioTree) = ScenarioResult
  /\ convert_arrays_to_multiline(extract_strings_only(ScenarioTree)) = ScenarioResult

\* C16: the two-stage pipeline of pull.py gives what process_yaml_data gives,
\* for every parsed tree, also where pull_file stops after the reducer because
\* nothing is left.
C16_FusedEqualsTwoStage ==
  /\ (phase = "reduced" /\ Falsy(reduced)) =>
       convert_arrays_to_multiline(reduced) = process_yaml_data(data)
  /\ phase = "collapsed" => collapsed = process_yaml_data(data)

IndexOf(seq, x) == CHOOSE i \in 1..Len(seq) : seq[i] = x

RECURSIVE KeyOrderKept(_, _)
\* Every mapping of out lists keys of the mapping of src it comes from, in the
\* order src has them.
KeyOrderKept(src, out) ==
  IF isDict(out) THEN
    /\ isDict(src)
    /\ out.ks = SelectSeq(src.ks, LAMBDA k : k \in Range(out.ks))
    /\ \A j \in 1..Len(out.ks) : KeyOrderKept(src.xs[IndexOf(src.ks, out.ks[j])], out.xs[j])
  ELSE IF isList(out) THEN
    /\ isList(src)
    /\ \E f \in [1..Len(out.xs) -> 1..Len(src.xs)] :
         /\ \A p, q \in 1..Len(out.xs) : p < q => f[p] < f[q]
         /\ \A j \in 1..Len(out.xs) : KeyOrderKept(src.xs[f[j]], out.xs[j])
  ELSE TRUE

\* C8: at every mapping level of the processed document the surviving keys are
\* the source keys in source order, dropped keys removed.
C8_KeyOrderPreserved ==
  /\ phase = "fused" => KeyOrderKept(data, fused)
  /\ phase \in {"reduced", "collapsed"} => KeyOrderKept(data, reduced)
  /\ phase = "collapsed" => KeyOrderKept(data, collapsed)

C8_Witness ==
  /\ phase = "fused"
  /\ isDict(data) /\ Len(data.ks) = 2
  /\ isDict(fused) /\ fused.ks = data.ks /\ fused.ks[1] = "b"

RECURSIVE Canonical(_), CanonicalNonEmpty(_), HasList(_)
\* Only strings, mappings and non-empty sequences of strings.
Canonical(v) ==
  \/ isStr(v)
  \/ StringList(v)
  \/ isDict(v) /\ \A i \in 1..Len(v.xs) : Canonical(v.xs[i])

\* The same, no mapping empty.
CanonicalNonEmpty(v) ==
  \/ isStr(v)
  \/ StringList(v)
  \/ isDict(v) /\ Len(v.xs) > 0 /\ \A i \in 1..Len(v.xs) : CanonicalNonEmpty(v.xs[i])

HasList(v) == isList(v) \/ (isDict(v) /\ \E i \in 1..Len(v.xs) : HasList(v.xs[i]))

\* C9 as stated: extract_strings_only returns every document of strings,
\* mappings and non-empty string sequences unchanged.
C9_ReduceIsIdentity == (phase = "reduced" /\ Canonical(data)) => reduced = data

\* C9 as amended: extract_strings_only returns a document of strings,
\* non-empty mappings and non-empty string sequences unchanged, string
\* sequences included; process_yaml_data returns it unchanged exactly when it
\* holds no sequence.
C9_ReduceIsIdentityNonEmpty ==
  /\ (phase = "reduced" /\ CanonicalNonEmpty(data)) => reduced = data
  /\ (phase = "fused" /\ CanonicalNonEmpty(data)) => (fused = data <=> ~HasList(data))

C9_Witness ==
  /\ phase = "reduced"
  /\ CanonicalNonEmpty(data) /\ isDict(data) /\ HasList(data)
  /\ reduced = data

(* ================== properties of process_yaml_content =============== *)

AllMarkers == {"do not translate", "don't translate", "no translate", "skip"}
TranslateMarkers == {"do not translate", "don't translate"}

\* A phrase of M, in any letter case, somewhere after a '#' of the line.
MarkerAfterHash(l, M) ==
  \E i, j \in 1..Len(LineText(l)) :
    i < j /\ LineText(l)[i] = "#" /\ Lower(LineText(l)[j]) \in M

\* The lines without a phrase of M after a '#', as they are and in their order.
LinesWithout(lines, M) == SelectSeq(lines, LAMBDA l : ~MarkerAfterHash(l, M))

\* C4 as stated: the text handed to the parser is the downloaded text less
\* every line with "do not translate", "don't translate", "no translate" or
\* "skip" (any case) after a '#', the other lines unchanged and in order.
C4_FilterDropsAllMarkers ==
  cphase = "processed" => cout.filtered = LinesWithout(content, AllMarkers)

\* C4 as amended: pull_common.should_skip_line drops the lines with "do not
\* translate" or "don't translate" after a '#' and no others; "no translate"
\* and "skip" are markers of pull.should_skip_line only.
C4_FilterDropsTranslateMarkers ==
  cphase = "processed" =>
    /\ cout.filtered = LinesWithout(content, TranslateMarkers)
    /\ \A i \in 1..Len(content) :
         pull_should_skip_line(content[i]) <=> MarkerAfterHash(content[i], AllMarkers)

C4_Witness ==
  /\ cphase = "processed"
  /\ Len(content) = 2
  /\ content[1].cmt = <<"DON'T TRANSLATE">>
  /\ content[2].cmt = <<"skip">>
  /\ cout.filtered = <<content[2]>>

\* A line of the form  key: "value" # do not translate
DoNotTranslateLine(l) ==
  /\ l.key # ""
  /\ isStr(l.val) /\ l.val.st = "dq"
  /\ \E i \in 1..Len(l.cmt) : Lower(l.cmt[i]) = "do not translate"

RECURSIVE KeyAnywhere(_, _)
\* k is a key of some mapping of v.
KeyAnywhere(v, k) ==
  \/ isDict(v) /\ k \in Range(v.ks)
  \/ (isDict(v) \/ isList(v)) /\ \E i \in 1..Len(v.xs) : KeyAnywhere(v.xs[i], k)

\* C5: a line  key: "value" # do not translate  is not parsed, and its key is
\* in no mapping of the processed document (unless another line of the text,
\* not so marked, gives the key).
C5_MarkedKeyAbsent ==
  cphase = "processed" =>
    \A i \in 1..Len(content) :
      DoNotTranslateLine(content[i]) =>
        /\ content[i] \notin Range(cout.filtered)
        /\ (\A j \in 1..Len(content) :
              \/ DoNotTranslateLine(content[j])
              \/ content[j].key # content[i].key /\ ~KeyAnywhere(content[j].val, content[i].key))
           => ~KeyAnywhere(cout.result, content[i].key)

C5_Witness ==
  /\ cphase = "processed"
  /\ Len(content) = 2
  /\ DoNotTranslateLine(content[1]) /\ content[1].key = "a" /\ content[1].ind = 0
  /\ isDict(cout.result) /\ cout.result.ks = <<"b">>

\* A line without a comment whose quoted value holds a marker phrase after a '#'.
QuotedMarkerLine(l) ==
  /\ l.cmt = <<>>
  /\ isStr(l.val) /\ l.val.st = "dq"
  /\ \E i, j \in 1..Len(l.val.s) :
       i < j /\ l.val.s[i] = "#" /\ Lower(l.val.s[j]) \in TranslateMarkers

\* C14: the filter does not tell a comment from a value. A line whose quoted
\* value holds '#' followed by "do not translate" or "don't translate" is
\* dropped like a commented one, and its key is not in the processed document
\* unless another line gives it; a value with the phrase and no '#' before it in
\* the line, or with a '#' and no phrase, does not drop the line.
C14_FilterIsContentBlind ==
  cphase = "processed" =>
    \A i \in 1..Len(content) :
      LET l == content[i]
      IN /\ QuotedMarkerLine(l) =>
              /\ l \notin Range(cout.filtered)
              /\ (\A j \in 1..Len(content) : content[j].key # l.key)
                   \/ (\A j \in 1..Len(content) :
                         content[j].key = l.key => content[j] \notin Range(cout.filtered))
                 => ~KeyAnywhere(cout.result, l.key)
         /\ (l.cmt = <<>> /\ isStr(l.val) /\ ~QuotedMarkerLine(l)) =>
              l \in Range(cout.filtered)

C14_Witness ==
  /\ cphase = "processed"
  /\ Len(content) = 2
  /\ content[1] = Line(0, "a", Str(<<"x">>, "dq"), <<>>)
  /\ content[2] = Line(0, "b", Str(<<"#", "do not translate">>, "dq"), <<>>)
  /\ cout.filtered = <<content[1]>>
  /\ cout.result = Map(<<"a">>, <<Str(<<"x">>, "dq")>>)

\* C10: process_yaml_content returns a mapping for every text.
C10_RootIsMapping == cphase = "processed" => isDict(cout.result)

(* ===================== properties of the change detector ============= *)

RECURSIVE Structure(_)
\* What a document is apart from the class (quote style) of its strings and
\* the order of its keys.
Structure(v) ==
  IF isStr(v) THEN [t |-> "str", s |-> v.s, kv |-> {}, xs |-> <<>>]
  ELSE IF isDict(v) THEN
    [t |-> "map", s |-> <<>>,
     kv |-> {<<v.ks[i], Structure(v.xs[i])>> : i \in 1..Len(v.ks)}, xs |-> <<>>]
  ELSE IF isList(v) THEN
    [t |-> "list", s |-> <<>>, kv |-> {}, xs |-> [i \in 1..Len(v.xs) |-> Structure(v.xs[i])]]
  ELSE [t |-> v.t, s |-> <<>>, kv |-> {}, xs |-> <<>>]

SaveReached == last.outcome \in {"saved", "unchanged", "save_error"}
StructurallyEqual ==
  last.pre.k = "yaml" /\ Structure(last.pre.doc) = Structure(last.doc)

\* C6: save_yaml_file leaves the target alone and returns False when the file
\* there loads to a document structurally equal to the new one (whatever the
\* key order and the quote style); otherwise (no file, a file that cannot be
\* read or parsed, a different document) it writes the new document and
\* returns True. The only exceptions leaving it come from creating the
\* directory or writing the file, never from reading the existing file.
C6_WriteIffChanged ==
  SaveReached =>
    /\ StructurallyEqual =>
         last.outcome = "unchanged" /\ ~last.ret /\ last.post = last.pre
    /\ (~StructurallyEqual /\ last.fault = "none") =>
         /\ last.outcome = "saved" /\ last.ret
         /\ last.post.k = "yaml" /\ Structure(last.post.doc) = Structure(last.doc)
    /\ last.outcome = "save_error" =>
         ~StructurallyEqual /\ last.fault \in {"mkdir", "open", "dump"}
    /\ fs[FileTarget] = last.post

\* An existing file with the keys in another order and plain strings, a new
\* document with double-quoted strings: no write.
C6_Witness ==
  /\ last.outcome = "unchanged"
  /\ last.pre.doc.ks = <<"b", "a">> /\ last.doc.ks = <<"a", "b">>
  /\ last.pre.doc.xs[2].st = "plain" /\ last.doc.xs[1].st = "dq"
  /\ last.post = last.pre

\* An unreadable file is overwritten.
C6_CorruptOverwritten ==
  /\ last.pre = Corrupt /\ last.outcome = "saved" /\ fs[FileTarget] = YamlFile(last.doc)

(* ========================= properties of a run ======================= *)

TargetsOfRepo(r) ==
  [f \in 1..Len(Repos[r].files) |-> Target(Repos[r].folder, Repos[r].files[f].name)]
RECURSIVE TargetsUpTo(_)
\* The targets of the first r repositories, in configuration order.
TargetsUpTo(r) == IF r = 0 THEN <<>> ELSE TargetsUpTo(r - 1) \o TargetsOfRepo(r)

Failed(call) == call.outcome \in {"download_error", "no_strings", "save_error"}

C7_Position ==
  /\ Failed(last) => ~last.ret
  /\ pc = "raised" => mode = "sources" /\ commits # <<>> /\ ~commits[Len(commits)]
  /\ pc \in {"report", "done", "raised"} => ri = Len(Repos) + 1
  /\ mode = "sources" =>
       attempted = IF ri <= Len(Repos)
                   THEN TargetsUpTo(ri - 1) \o SubSeq(TargetsOfRepo(ri), 1, fi - 1)
                   ELSE TargetsUpTo(Len(Repos))
  /\ mode = "translations" =>
       /\ pending.scanned => pending.files # {} /\ pc = "repos"
       /\ pc = "repos" => ri <= Len(Repos) /\ fi <= Len(Repos[ri].files)

C7_Step ==
  /\ (pc = "repos" /\ ~pending.scanned) =>
       \/ <<ri', fi'>> = <<ri, fi>> /\ pending'.scanned
       \/ <<ri', fi'>> = <<ri, fi + 1>> /\ fi < Len(Repos[ri].files)
       \/ <<ri', fi'>> = <<ri + 1, 1>> /\ fi = Len(Repos[ri].files)
  /\ (pc = "repos" /\ pending.scanned) =>
       \E lang_file \in pending.files :
         /\ attempted' =
              Append(attempted,
                     Target(Repos[ri].folder, FileName(get_mapped_language_code(lang_file.stem))))
         /\ \/ /\ pending' = [scanned |-> TRUE, files |-> pending.files \ {lang_file}]
               /\ pending'.files # {}
               /\ <<ri', fi'>> = <<ri, fi>>
            \/ /\ pending.files = {lang_file}
               /\ ~pending'.scanned
               /\ \/ <<ri', fi'>> = <<ri, fi + 1>> /\ fi < Len(Repos[ri].files)
                  \/ <<ri', fi'>> = <<ri + 1, 1>> /\ fi = Len(Repos[ri].files)

\* C7: whatever the outcome of a file (download error, text that does not
\* parse, write error), pull_file returns False and the loops go on. Pulling
\* sources, the files attempted so far are always exactly the configured files
\* before the current position, and all of them when the loop is left.
\* Importing translations, every file configuration is scanned in turn and
\* every language file found is attempted, one per step, before the next
\* file configuration. The run stops early only when git fails.
C7_FailuresDoNotBlock == []C7_Position /\ [][C7_Step]_vars

\* The first two files failed, the third was saved, and the run finished.
C7_Witness ==
  /\ mode = "sources" /\ pc = "done"
  /\ Len(log) = 3
  /\ log[1].msg = "error" /\ log[2].msg = "error" /\ log[3].msg = "saved"
  /\ attempted = TargetsUpTo(Len(Repos))

(* ===================== properties of the serializer ================== *)

C15_SourcesPreserveQuotes ==
  SaveReached =>
    /\ last.mode = "sources" => last.preserve_quotes
    /\ last.mode = "translations" => ~last.preserve_quotes

\* C15: save_yaml_file is called with preserve_quotes=False when pulling
\* sources and with preserve_quotes=True when importing translations, and in
\* both modes the strings are written in the style they were loaded with.
C15_TranslationsPreserveQuotes ==
  SaveReached =>
    /\ last.mode = "sources" => ~last.preserve_quotes
    /\ last.mode = "translations" => last.preserve_quotes
    /\ last.outcome = "saved" =>
         /\ last.written = Serialize(last.doc, TRUE)
         /\ last.written = Serialize(last.doc, FALSE)
         /\ isDict(last.doc) =>
              \A i \in 1..Len(last.doc.ks) :
                isStr(last.doc.xs[i]) => last.written[i].val.st = last.doc.xs[i].st

\* A source file with a double-quoted string was written, quotes kept.
C15_Witness ==
  /\ last.mode = "sources" /\ last.outcome = "saved" /\ ~last.preserve_quotes
  /\ Len(last.dl.text) = 1 /\ last.dl.text[1].val = Str(<<"x">>, "dq")
  /\ last.written = <<Line(0, last.dl.text[1].key, Str(<<"x">>, "dq"), <<>>)>>
  /\ last.dl.text[1].key # ""

RunEnded == pc \in {"report", "done", "raised"}

\* The targets pull_file saved, in the order of the calls.
SavedTargets ==
  LET saved == SelectSeq(log, LAMBDA e : e.msg = "saved")
  IN [i \in 1..Len(saved) |-> saved[i].target]

CountLogged(msgs) == Len(SelectSeq(log, LAMBDA e : e.msg \in msgs))

\* C13 as stated: the report at the end of a run gives the numbers of
\* succeeded, failed and unchanged files.
C13_ReportHasAllCounts ==
  pc = "done" =>
    /\ [label |-> "updated", n |-> CountLogged({"saved"})] \in Summary
    /\ [label |-> "failed", n |-> CountLogged({"error", "warning"})] \in Summary
    /\ [label |-> "unchanged", n |-> CountLogged({"no_changes"})] \in Summary

\* C13: every call of pull_file prints one line for its file, an error line
\* for a download or write error, a warning for a text without strings (one
\* that does not parse included), "No changes" for an unchanged target and
\* "Saved" for a written one; the report at the end of the run gives only the
\* number of repositories and the number of files written.
C13_ErrorsLoggedUpdatedCounted ==
  /\ Len(log) = Len(attempted)
  /\ log # <<>> =>
       LET e == log[Len(log)]
       IN /\ e.target = attempted[Len(attempted)]
          /\ last.outcome \in {"download_error", "save_error"} <=> e.msg = "error"
          /\ last.outcome = "no_strings" <=> e.msg = "warning"
          /\ last.outcome = "unchanged" <=> e.msg = "no_changes"
          /\ last.outcome = "saved" <=> e.msg = "saved"
  /\ pc = "done" =>
       Summary = {[label |-> "repositories", n |-> Len(Repos)],
                  [label |-> "updated", n |-> CountLogged({"saved"})]}

\* A run ended in which one file failed and another was unchanged: the lines
\* of the two calls differ, the report counts neither.
C13_Witness ==
  /\ pc = "done"
  /\ \E i, j \in 1..Len(log) : log[i].msg = "error" /\ log[j].msg = "no_changes"
  /\ [label |-> "updated", n |-> 0] \in Summary

(* ================= properties of an empty document =================== *)

RECURSIVE AnyString(_)
\* v is a string or holds one.
AnyString(v) ==
  \/ isStr(v)
  \/ (isDict(v) \/ isList(v)) /\ \E i \in 1..Len(v.xs) : AnyString(v.xs[i])

\* The downloaded text gives no document: it does not parse, or what is left
\* of it after the comment filter holds no string (nothing at all included).
NothingToTranslate(txt) ==
  LET parsed == Load(SelectSeq(txt, LAMBDA l : ~MarkerAfterHash(l, TranslateMarkers)))
  IN ~parsed.ok \/ ~AnyString(parsed.v)

\* C17: when the downloaded text gives no document, and only then, pull_file
\* prints its warning and returns False without calling save_yaml_file: nothing
\* is written and the target is what it was, whether absent, unreadable, empty
\* or a document.
C17_EmptyDocumentNotWritten ==
  (last.outcome # "" /\ last.dl.ok) =>
    /\ NothingToTranslate(last.dl.text) <=> last.outcome = "no_strings"
    /\ last.outcome = "no_strings" =>
         /\ ~last.ret /\ ~last.raised
         /\ last.doc = EmptyDict
         /\ last.written = <<>>
         /\ last.post = last.pre
         /\ fs[FileTarget] = last.pre

\* A text with a key given twice does not parse; the document at the target stays.
C17_Witness ==
  /\ last.outcome = "no_strings"
  /\ last.dl.text = <<Line(0, "a", Str(<<"x">>, "dq"), <<>>), Line(0, "a", Str(<<"x">>, "dq"), <<>>)>>
  /\ last.pre.k = "yaml" /\ isDict(last.pre.doc)
  /\ fs[FileTarget] = last.pre

\* Every line of the text is filtered out.
C17_AllFiltered ==
  /\ last.outcome = "no_strings"
  /\ Len(last.dl.text) = 1 /\ last.dl.text[1].cmt # <<>>
  /\ last.pre.k = "yaml" /\ fs[FileTarget] = last.pre

(* ======================= properties of the commit ==================== *)

C18_Commits ==
  /\ Len(commits) <= 1
  /\ pc \in {"repos", "report"} => commits = <<>>
  /\ mode = "translations" => commits = <<>>
  /\ commits # <<>> =>
       /\ ri = Len(Repos) + 1
       /\ attempted = TargetsUpTo(Len(Repos))
       /\ SavedTargets # <<>>
       /\ pc = IF commits[1] THEN "done" ELSE "raised"
  /\ (mode = "sources" /\ pc \in {"done", "raised"}) =>
       (commits # <<>> <=> SavedTargets # <<>>)

C18_CommitStep == commits' # commits => pc = "report" /\ commits = <<>>

\* C18: git_commit_changes is called at most once in a run, by pull_sources
\* only, after the loop over the repositories has attempted every configured
\* file, and exactly when some file was saved; while files are being pulled and
\* when nothing was saved there is no call.
C18_CommitOnceAfterAllRepos == []C18_Commits /\ [][C18_CommitStep]_vars

\* A run in which the first file failed and a later one was saved: one commit.
C18_Witness ==
  /\ mode = "sources" /\ pc = "done"
  /\ commits = <<TRUE>>
  /\ log[1].msg = "error"
  /\ SavedTargets = <<Target("r2", FileName("messages"))>>

\* A run in which nothing was saved: no commit.
C18_NothingChanged ==
  /\ mode = "sources" /\ pc = "done"
  /\ commits = <<>> /\ Len(log) = 3
  /\ \E i \in 1..3 : log[i].msg = "no_changes"

(* ================== properties of the imported files ================= *)

\* Where pull_repo saves the language file lang_file of the current repository.
ImportTarget(lang_file) ==
  Target(Repos[ri].folder, FileName(get_mapped_language_code(lang_file.stem)))

\* C19: the language files found in one directory, the source file apart, go
\* to different target paths.
C19_DistinctTargetPaths ==
  (mode = "translations" /\ pending.scanned) =>
    \A f, g \in pending.files : f # g => ImportTarget(f) # ImportTarget(g)

\* Both zh-Hans.yml and zh-CN.yml of one directory were saved, to the same
\* path, the second over the first.
C19_Overwritten ==
  /\ mode = "translations"
  /\ Len(log) = 2
  /\ log[1].msg = "saved" /\ log[2].msg = "saved"
  /\ log[1].target = log[2].target
  /\ <<ri, fi>> = <<1, 2>>

====
